---- MODULE Spec2Model ----
(***************************************************************************)
(* Model of the motion-master-client command line program (src/cli.ts):    *)
(* the two sockets' message handlers, the output subscriber, the           *)
(* all-messages logger, the four commander actions and the helpers         *)
(* getCommandDeviceAddress, exitOnMessageReceived, parseOptionValueAsInt.  *)
(* The MotionMasterClient class (./motion-master-client) is imported by    *)
(* cli.ts and is not part of the source at hand: its methods are modelled  *)
(* from the specification's component contracts.                           *)
(***************************************************************************)
EXTENDS Integers, Sequences, FiniteSets, TLC

(* ------------------------------ bounds -------------------------------- *)
\* invocations of the monitor action
MaxMonitors == 2
\* direct calls of exitOnMessageReceived(v4(), exit)
MaxRegistrations == 2
\* events delivered by timers and sockets to the program
MaxEvents == 4
\* events delivered while exitOnMessageReceived is exercised
MaxCorrelationEvents == 4
\* events delivered while the monitor action is exercised
MaxMonitorEvents == 3
\* events delivered in the behaviours checked for progress
MaxLiveEvents == 3

\* program.parse(process.argv) dispatches one command per process
CommandsPerProcess == 1

(* --------------------------- JavaScript values ------------------------ *)
Undefined == [t |-> "undefined", n |-> 0]
NaN == [t |-> "NaN", n |-> 0]
Num(n) == [t |-> "number", n |-> n]

\* ToBoolean of undefined, NaN or a number
Truthy(v) == v.t = "number" /\ v.n # 0
NumberIsInteger(v) == v.t = "number"

DigitChars == <<"0", "1", "2", "3", "4", "5", "6", "7", "8", "9">>
IsDigit(c) == \E k \in 1..Len(DigitChars) : DigitChars[k] = c
DigitValue(c) == (CHOOSE k \in 1..Len(DigitChars) : DigitChars[k] = c) - 1

\* length of the longest prefix of text made of decimal digits
RECURSIVE DigitPrefixLen(_)
DigitPrefixLen(text) ==
  IF text = <<>> \/ ~IsDigit(Head(text)) THEN 0
  ELSE 1 + DigitPrefixLen(Tail(text))

RECURSIVE DigitsValue(_, _)
DigitsValue(text, k) ==
  IF k = 0 THEN 0 ELSE 10 * DigitsValue(text, k - 1) + DigitValue(text[k])

\* parseInt(value, 10) of a text without sign or leading blanks
ParseInt10(text) ==
  IF DigitPrefixLen(text) = 0 THEN NaN
  ELSE Num(DigitsValue(text, DigitPrefixLen(text)))

parseOptionValueAsInt(value) == ParseInt10(value)

\* texts given on the command line for -d and -p; <<>> stands for "option absent"
Absent == <<>>
DeviceAddressTexts == {Absent, <<"0">>, <<"7">>}
DevicePositionTexts == {Absent, <<"0">>, <<"x">>}

\* commander: an absent option keeps its default value, a given one is parsed
OptionValue(text, default) ==
  IF text = Absent THEN default ELSE parseOptionValueAsInt(text)

(* ------------------------------- state -------------------------------- *)
VARIABLES
  nextId,     \* number of identifiers v4() has produced
  cmds,       \* the invocations of commander actions, in order
  regs,       \* the subscriptions made by exitOnMessageReceived, in order
  fed,        \* messages serverSocket delivered (input.next), in order
  logged,     \* messages the all-messages logger printed, in order
  emitted,    \* buffers emitted on the output subject, in order
  sent,       \* buffers passed to serverSocket.send, in order
  debugged,   \* buffers the output subscriber logged with debug()
  notifs,     \* notifications notificationSocket delivered, in order
  subs,       \* subscriptions of filterNotificationByTopic$, in order
  emitters,   \* monitoring emitters started, in order
  pings,      \* ticks of pingSystemInterval so far
  ticks,      \* ticks of monitoring emitters so far
  errors,     \* errors printed by the unhandledRejection handler
  exited      \* process.exit() was called

vars == <<nextId, cmds, regs, fed, logged, emitted, sent, debugged, notifs,
          subs, emitters, pings, ticks, errors, exited>>

Range(f) == {f[k] : k \in DOMAIN f}
MinOf(S) == CHOOSE x \in S : \A y \in S : x <= y

(* ------------------- MotionMasterClient (imported) -------------------- *)
\* a typed Request as encoded into a buffer: the correlation id, the operation,
\* the target device and, for a monitoring emission, the emitter that made it
Request(id, kind, addr, em) == [id |-> id, kind |-> kind, addr |-> addr, em |-> em]

\* a decoded inbound message: its id and, for a device-info reply, the device
\* found at the looked-up position (Undefined when there is none)
Message(id, device) == [id |-> id, device |-> device]

\* getDeviceAtPosition$(position): one GetDeviceInfo round trip
LookupRequest(id) == Request(id, "GetDeviceInfo", Undefined, 0)
\* what the lookup's reply can hold for the position: no device, or a device
LookupDevices == {Undefined, Num(9)}

\* requestPingSystem()
PingRequest(id) == Request(id, "PingSystem", Undefined, 0)

\* filterNotificationByTopic$(topic): exact equality on the topic
FilterNotificationByTopic(notif, topic) == notif.topic = topic

\* mutant of startMonitoring: the earlier emitter of the key is left running
StartMonitoringKeepsOld(ems, interval, topic, addr) ==
  Append(ems, [topic |-> topic, addr |-> addr, interval |-> interval,
               running |-> TRUE])

\* startMonitoringDeviceParameterValues(interval, topic, {parameters, deviceAddress}):
\* the running emitter of the same (topic, deviceAddress) key is stopped and a
\* new running emitter is created
StartMonitoring(ems, interval, topic, addr) ==
  Append([k \in DOMAIN ems |->
            IF ems[k].topic = topic /\ ems[k].addr = addr
            THEN [ems[k] EXCEPT !.running = FALSE] ELSE ems[k]],
         [topic |-> topic, addr |-> addr, interval |-> interval, running |-> TRUE])

\* the request a running emitter submits at a tick of its interval
MonitoringRequest(id, ems, e) ==
  Request(id, "GetDeviceParameterValues", ems[e].addr, e)

(* ------------------------------ cli.ts -------------------------------- *)
Topics == {"A", "B"}
\* -i in microseconds: a given value, and the default 1 * 1000 * 1000
Intervals == {500000, 1000000}
CommandNames == {"request", "upload", "download", "monitor"}
\* the <type> argument of the request command; "Other" is any unsupported text
RequestTypes == {"GetSystemVersion", "GetDeviceInfo", "GetDeviceParameterInfo",
                 "GetDeviceParameterValues", "GetDeviceFileList", "GetDeviceLog",
                 "Other"}

\* mutant of the notification subject: a ReplaySubject hands a new subscriber
\* the earlier notifications of its topic
RECURSIVE SubjectReplays(_, _)
SubjectReplays(notifSeq, topic) ==
  IF notifSeq = <<>> THEN <<>>
  ELSE IF Head(notifSeq).topic = topic
       THEN <<Head(notifSeq)>> \o SubjectReplays(Tail(notifSeq), topic)
       ELSE SubjectReplays(Tail(notifSeq), topic)

\* const notification = new rxjs.Subject(): what a new subscriber of a topic is
\* handed of the notifications delivered before it subscribed
SubjectOnSubscribe(notifSeq, topic) == <<>>

\* mutant of the notification handler: the topic frame is not passed on
NotificationOnMessageNoTopic(topic, message) ==
  [topic |-> "", message |-> message]

\* notificationSocket.on('message'): what is pushed into the notification subject
NotificationOnMessage(topic, message) == [topic |-> topic, message |-> message]

\* serverSocket.on('message'): what is pushed into the input subject
ServerOnMessage(data) == data

\* output.subscribe: the condition under which the buffer is logged
IsLoggedOutgoing(buffer) == ~(buffer.kind = "PingSystem")

\* mutant of the output subscriber: ping buffers are skipped instead of sent
OutputSubscriberSkipsPing(sendSeq, buffer) ==
  IF buffer.kind = "PingSystem" THEN sendSeq ELSE Append(sendSeq, buffer)

\* mutant of the output subscriber: a buffer that follows a ping is not sent
OutputSubscriberBusyAfterPing(sendSeq, buffer) ==
  IF sendSeq # <<>> /\ sendSeq[Len(sendSeq)].kind = "PingSystem" THEN sendSeq
  ELSE Append(sendSeq, buffer)

\* mutant of the output subscriber: a buffer that is logged is sent twice
OutputSubscriberResendsLogged(sendSeq, buffer) ==
  IF buffer.kind = "PingSystem" THEN Append(sendSeq, buffer)
  ELSE Append(Append(sendSeq, buffer), buffer)

\* output.subscribe: serverSocket.send(buffer)
OutputSubscriber(sendSeq, buffer) == Append(sendSeq, buffer)

\* mutant of the logger: a message is printed in front of the earlier ones
LoggerSubscriberPrepends(logSeq, msg) == <<msg>> \o logSeq

\* motionMasterMessage$.subscribe: the logger prints every message
LoggerSubscriber(logSeq, msg) == Append(logSeq, msg)

\* getCommandDeviceAddress: which branch is taken
AddressSource(deviceAddress, devicePosition) ==
  IF Truthy(deviceAddress) THEN "address"
  ELSE IF NumberIsInteger(devicePosition) THEN "position"
  ELSE "none"

\* mutant of the lookup outcome: no throw when there is no device
LookupOutcomeNoThrow(device) == [ok |-> TRUE, addr |-> device]

\* getCommandDeviceAddress after the lookup completed: the address, or the throw
LookupOutcome(device) ==
  IF device # Undefined THEN [ok |-> TRUE, addr |-> device]
  ELSE [ok |-> FALSE, addr |-> Undefined]

\* mutants of the filter predicate: no comparison, and an inverted comparison
FilterMatchesAny(message, messageId) == TRUE
FilterMatchesOther(message, messageId) == message.id # messageId

\* mutant of the filter predicate: a message of unknown id passes as well
FilterMatchesOrUnknown(message, messageId) ==
  message.id = messageId \/ message.id = 0

\* exitOnMessageReceived: the filter predicate
FilterMatches(message, messageId) == message.id = messageId

\* mutant of first(): the subscription is not completed after the first match
DeliverWithoutFirst(reg, message) ==
  [reg EXCEPT !.hits = @ + 1, !.val = message.id]

\* exitOnMessageReceived: first() passes the matching message on and completes
FirstDeliver(reg, message) ==
  [reg EXCEPT !.done = TRUE, !.hits = @ + 1, !.val = message.id]

\* mutant of the id choice: a fixed text is used in place of v4()
NewMessageIdFixed(n) == 1

\* const messageId = v4(): an identifier no earlier call has produced, n being
\* the number of identifiers produced so far
NewMessageId(n) == n + 1

\* exitOnMessageReceived(messageId, exit): the subscription it adds
exitOnMessageReceived(regSeq, messageId, exit) ==
  Append(regSeq, [id |-> messageId, exit |-> exit, done |-> FALSE,
                  hits |-> 0, val |-> 0])

\* mutant of the statement order: the request is submitted before registering
ActionStepsSubmitFirst(name) ==
  IF name = "monitor" THEN <<"subscribe", "start">>
  ELSE <<"submit", "register">>

\* mutant of the statement order: monitoring is started before subscribing
ActionStepsStartFirst(name) ==
  IF name = "monitor" THEN <<"start", "subscribe">>
  ELSE <<"register", "submit">>

\* the statements of a command action after `await getCommandDeviceAddress(cmd)`
ActionSteps(name) ==
  IF name = "monitor" THEN <<"subscribe", "start">>
  ELSE <<"register", "submit">>

\* the request command's switch (and upload, download): the operation submitted
SubmitKind(name, type) ==
  IF name = "upload" THEN "GetDeviceParameterValues"
  ELSE IF name = "download" THEN "SetDeviceParameterValues"
  ELSE type

\* whether the call passes messageId on to the client method
PassesMessageId(name, type) ==
  name # "request" \/ type \in {"GetSystemVersion", "GetDeviceInfo",
                                "GetDeviceParameterInfo", "GetDeviceParameterValues"}

\* whether the call passes deviceAddress on to the client method
PassesDeviceAddress(name, type) ==
  name # "request" \/ type \notin {"GetSystemVersion", "GetDeviceInfo"}

(* ----------------------------- behaviour ------------------------------ *)
Init ==
  /\ nextId = 0
  /\ cmds = <<>>
  /\ regs = <<>>
  /\ fed = <<>>
  /\ logged = <<>>
  /\ emitted = <<>>
  /\ sent = <<>>
  /\ debugged = <<>>
  /\ notifs = <<>>
  /\ subs = <<>>
  /\ emitters = <<>>
  /\ pings = 0
  /\ ticks = 0
  /\ errors = 0
  /\ exited = FALSE

\* a client method encodes the request and calls output.next(buffer); the
\* output subscriber runs synchronously
OutputNext(buffer) ==
  /\ emitted' = Append(emitted, buffer)
  /\ sent' = OutputSubscriber(sent, buffer)
  /\ debugged' = IF IsLoggedOutgoing(buffer) THEN Append(debugged, buffer)
                 ELSE debugged

\* an error thrown in an async action: the promise rejects, the
\* unhandledRejection handler prints it and calls process.exit()
UnhandledRejection ==
  /\ errors' = errors + 1
  /\ exited' = TRUE

\* timer ticks and socket messages delivered so far
Events == pings + Len(fed) + Len(notifs) + ticks

\* mutant of the ping subscription: the interval emits once only
PingSubscribedOnce == pings = 0

\* pingSystemInterval.subscribe(...) is never unsubscribed: the interval keeps
\* ticking as long as the process lives
PingSubscribed == TRUE

\* pingSystemInterval.subscribe(() => motionMasterClient.requestPingSystem())
PingTick(budget) ==
  /\ ~exited
  /\ PingSubscribed
  /\ Events < budget
  /\ pings' = pings + 1
  /\ nextId' = nextId + 1
  /\ OutputNext(PingRequest(nextId + 1))
  /\ UNCHANGED <<cmds, regs, fed, logged, notifs, subs, emitters, ticks,
                 errors, exited>>

\* a call of exitOnMessageReceived(v4(), exit) on its own
Register(exit) ==
  /\ ~exited
  /\ Cardinality({k \in DOMAIN regs :
                    \A c \in DOMAIN cmds : cmds[c].messageId # regs[k].id})
       < MaxRegistrations
  /\ nextId' = nextId + 1
  /\ regs' = exitOnMessageReceived(regs, NewMessageId(nextId), exit)
  /\ UNCHANGED <<cmds, fed, logged, emitted, sent, debugged, notifs, subs,
                 emitters, pings, ticks, errors, exited>>

\* the registrations whose subscriber runs for a message: those still
\* subscribed whose filter passes it, in subscription order, up to the first
\* one that calls process.exit()
Fired(msg) ==
  LET match == {k \in DOMAIN regs :
                  ~regs[k].done /\ FilterMatches(msg, regs[k].id)}
      exits == {k \in match : regs[k].exit}
  IN  IF exits = {} THEN match ELSE {k \in match : k <= MinOf(exits)}

\* ids a message from Motion Master can carry: the id of a request that was
\* sent, an id registered by a direct call, or an id unknown to the client (0)
FeedableIds ==
  {r.id : r \in Range(sent)}
    \cup {regs[k].id : k \in {j \in DOMAIN regs :
                                \A c \in DOMAIN cmds : cmds[c].messageId # regs[j].id}}
    \cup {0}

\* the commands whose position lookup is completed by a message
LookupsOf(msg) ==
  {c \in DOMAIN cmds : cmds[c].pc = "lookup" /\ cmds[c].lookupId = msg.id}

\* serverSocket.on('message'): input.next(data) runs the subscribers of
\* motionMasterMessage$ in subscription order: the logger, then the lookups
\* and registrations
Feed(budget, id, device) ==
  LET msg == ServerOnMessage(Message(id, device))
      fired == Fired(msg)
      exits == \E k \in fired : regs[k].exit
      looks == IF exits THEN {} ELSE LookupsOf(msg)
      thrown == {c \in looks : ~LookupOutcome(msg.device).ok}
  IN
  /\ ~exited
  /\ Events < budget
  /\ id \in FeedableIds
  /\ device # Undefined =>
       \E c \in DOMAIN cmds : cmds[c].lookupId = id
  /\ fed' = Append(fed, Message(id, device))
  /\ logged' = LoggerSubscriber(logged, msg)
  /\ regs' = [k \in DOMAIN regs |->
                IF k \in fired THEN FirstDeliver(regs[k], msg) ELSE regs[k]]
  /\ cmds' = [c \in DOMAIN cmds |->
                IF c \in looks
                THEN [cmds[c] EXCEPT
                        !.lookup = IF msg.device = Undefined THEN "missing"
                                   ELSE "found",
                        !.pc = IF LookupOutcome(msg.device).ok THEN "s1"
                               ELSE "failed",
                        !.addr = LookupOutcome(msg.device).addr]
                ELSE cmds[c]]
  /\ errors' = errors + Cardinality(thrown)
  /\ exited' = (exits \/ thrown # {})
  /\ UNCHANGED <<nextId, emitted, sent, debugged, notifs, subs, emitters,
                 pings, ticks>>

\* notificationSocket.on('message'): notification.next([topic, message]) runs
\* the topic subscribers
Notify(budget, topic) ==
  LET notif == NotificationOnMessage(topic, Len(notifs) + 1)
  IN
  /\ ~exited
  /\ Events < budget
  /\ notifs' = Append(notifs, [topic |-> topic, message |-> Len(notifs) + 1])
  /\ subs' = [k \in DOMAIN subs |->
                IF FilterNotificationByTopic(notif, subs[k].topic)
                THEN [subs[k] EXCEPT !.got = Append(@, notif)] ELSE subs[k]]
  /\ UNCHANGED <<nextId, cmds, regs, fed, logged, emitted, sent, debugged,
                 emitters, pings, ticks, errors, exited>>

\* a tick of a running monitoring emitter
EmitterTick(budget, e) ==
  /\ ~exited
  /\ Events < budget
  /\ e \in DOMAIN emitters
  /\ emitters[e].running
  /\ ticks' = ticks + 1
  /\ nextId' = nextId + 1
  /\ OutputNext(MonitoringRequest(nextId + 1, emitters, e))
  /\ UNCHANGED <<cmds, regs, fed, logged, notifs, subs, emitters, pings,
                 errors, exited>>

\* a commander action is invoked: options are parsed and the action runs up to
\* `await getCommandDeviceAddress(cmd)`; no other action is in the statements
\* that follow its await (they run to completion once resumed)
Start(limit, name, type, daText, dpText, topic, interval) ==
  LET da == OptionValue(daText, Undefined)
      dp == OptionValue(dpText, Num(0))
      src == AddressSource(da, dp)
      cmd == [name |-> name, type |-> type, da |-> da, dp |-> dp,
              topic |-> topic, interval |-> interval,
              pc |-> IF src = "position" THEN "lookup" ELSE "s1",
              lookup |-> IF src = "position" THEN "pending" ELSE "no",
              lookupId |-> IF src = "position" THEN nextId + 1 ELSE 0,
              addr |-> IF src = "address" THEN da ELSE Undefined,
              messageId |-> 0]
  IN
  /\ ~exited
  /\ Len(cmds) < limit
  /\ \A c \in DOMAIN cmds : cmds[c].pc \in {"lookup", "done", "failed"}
  /\ cmds' = Append(cmds, cmd)
  /\ IF src = "position"
     THEN /\ nextId' = nextId + 1
          /\ OutputNext(LookupRequest(nextId + 1))
     ELSE UNCHANGED <<nextId, emitted, sent, debugged>>
  /\ UNCHANGED <<regs, fed, logged, notifs, subs, emitters, pings, ticks,
                 errors, exited>>

\* one statement group of a command action, run for command c with its
\* messageId mid; base is the number of ids v4() has produced before it
DoStep(c, step, mid, base, pcAfter) ==
  LET cmd == cmds[c]
      done == [cmds EXCEPT ![c].pc = pcAfter, ![c].messageId = mid]
  IN
  CASE step = "register" ->
         /\ regs' = exitOnMessageReceived(regs, mid, TRUE)
         /\ cmds' = done
         /\ nextId' = base
         /\ UNCHANGED <<emitted, sent, debugged, subs, emitters, errors, exited>>
    [] step = "submit" /\ SubmitKind(cmd.name, cmd.type) = "Other" ->
         /\ cmds' = [done EXCEPT ![c].pc = "failed"]
         /\ nextId' = base
         /\ UnhandledRejection
         /\ UNCHANGED <<regs, emitted, sent, debugged, subs, emitters>>
    [] step = "submit" /\ SubmitKind(cmd.name, cmd.type) # "Other" ->
         LET own == PassesMessageId(cmd.name, cmd.type)
             id == IF own THEN mid ELSE base + 1
             addr == IF PassesDeviceAddress(cmd.name, cmd.type)
                     THEN cmd.addr ELSE Undefined
         IN
         /\ OutputNext(Request(id, SubmitKind(cmd.name, cmd.type), addr, 0))
         /\ cmds' = done
         /\ nextId' = IF own THEN base ELSE base + 1
         /\ UNCHANGED <<regs, subs, emitters, errors, exited>>
    [] step = "subscribe" ->
         /\ subs' = Append(subs, [topic |-> cmd.topic, since |-> Len(notifs),
                                  got |-> SubjectOnSubscribe(notifs, cmd.topic)])
         /\ cmds' = done
         /\ nextId' = base
         /\ UNCHANGED <<regs, emitted, sent, debugged, emitters, errors, exited>>
    [] step = "start" ->
         /\ emitters' = StartMonitoring(emitters, cmd.interval, cmd.topic, cmd.addr)
         /\ cmds' = done
         /\ nextId' = base
         /\ UNCHANGED <<regs, emitted, sent, debugged, subs, errors, exited>>

\* the action resumes after the await: `const messageId = v4()` (not in
\* monitor) and the first statement group
Step1(c) ==
  /\ ~exited
  /\ c \in DOMAIN cmds
  /\ cmds[c].pc = "s1"
  /\ IF cmds[c].name = "monitor"
     THEN DoStep(c, ActionSteps(cmds[c].name)[1], 0, nextId, "s2")
     ELSE DoStep(c, ActionSteps(cmds[c].name)[1], NewMessageId(nextId),
                 nextId + 1, "s2")
  /\ UNCHANGED <<fed, logged, notifs, pings, ticks>>

\* the second statement group
Step2(c) ==
  /\ ~exited
  /\ c \in DOMAIN cmds
  /\ cmds[c].pc = "s2"
  /\ DoStep(c, ActionSteps(cmds[c].name)[2], cmds[c].messageId, nextId, "done")
  /\ UNCHANGED <<fed, logged, notifs, pings, ticks>>

StartRequest(limit) ==
  \E type \in RequestTypes, daText \in DeviceAddressTexts,
     dpText \in DevicePositionTexts :
    Start(limit, "request", type, daText, dpText, "", 0)

StartUpload(limit) ==
  \E daText \in DeviceAddressTexts, dpText \in DevicePositionTexts :
    Start(limit, "upload", "", daText, dpText, "", 0)

StartDownload(limit) ==
  \E daText \in DeviceAddressTexts, dpText \in DevicePositionTexts :
    Start(limit, "download", "", daText, dpText, "", 0)

StartMonitor(limit, daTexts, dpTexts) ==
  \E topic \in Topics, interval \in Intervals,
     daText \in daTexts, dpText \in dpTexts :
    Start(limit, "monitor", "", daText, dpText, topic, interval)

\* The program: program.parse(process.argv) runs one command action; timers
\* and sockets deliver their events in any order.
Next ==
  \/ StartRequest(CommandsPerProcess)
  \/ StartUpload(CommandsPerProcess)
  \/ StartDownload(CommandsPerProcess)
  \/ StartMonitor(CommandsPerProcess, DeviceAddressTexts, DevicePositionTexts)
  \/ \E c \in DOMAIN cmds : Step1(c)
  \/ \E c \in DOMAIN cmds : Step2(c)
  \/ PingTick(MaxEvents)
  \/ \E id \in 0..nextId, device \in LookupDevices : Feed(MaxEvents, id, device)
  \/ \E topic \in Topics : Notify(MaxEvents, topic)
  \/ \E e \in DOMAIN emitters : EmitterTick(MaxEvents, e)

Spec == Init /\ [][Next]_vars

\* exitOnMessageReceived applied to any number of fresh ids and either value
\* of `exit`, with the messages and pings that can arrive meanwhile.
NextCorrelation ==
  \/ \E exit \in BOOLEAN : Register(exit)
  \/ PingTick(MaxCorrelationEvents)
  \/ \E id \in 0..nextId : Feed(MaxCorrelationEvents, id, Undefined)

SpecCorrelation == Init /\ [][NextCorrelation]_vars

\* The monitor action applied several times to an explicit device address,
\* with the notifications and emitter ticks that can occur meanwhile.
NextMonitor ==
  \/ StartMonitor(MaxMonitors, {<<"7">>}, {Absent})
  \/ \E c \in DOMAIN cmds : Step1(c)
  \/ \E c \in DOMAIN cmds : Step2(c)
  \/ \E topic \in Topics : Notify(MaxMonitorEvents, topic)
  \/ \E e \in DOMAIN emitters : EmitterTick(MaxMonitorEvents, e)

SpecMonitor == Init /\ [][NextMonitor]_vars

\* The program with the scheduling of the event loop: the ping timer keeps
\* firing, and an action resumed after its await runs its statements.
NextLive ==
  \/ StartRequest(CommandsPerProcess)
  \/ StartUpload(CommandsPerProcess)
  \/ StartDownload(CommandsPerProcess)
  \/ StartMonitor(CommandsPerProcess, DeviceAddressTexts, DevicePositionTexts)
  \/ \E c \in DOMAIN cmds : Step1(c)
  \/ \E c \in DOMAIN cmds : Step2(c)
  \/ PingTick(MaxLiveEvents)
  \/ \E id \in 0..nextId, device \in LookupDevices : Feed(MaxLiveEvents, id, device)
  \/ \E topic \in Topics : Notify(MaxLiveEvents, topic)
  \/ \E e \in DOMAIN emitters : EmitterTick(MaxLiveEvents, e)

LiveSpec ==
  /\ Init
  /\ [][NextLive]_vars
  /\ WF_vars(PingTick(MaxLiveEvents))
  /\ \A c \in 1..CommandsPerProcess : WF_vars(Step1(c)) /\ WF_vars(Step2(c))

(* ------------------------------ claims -------------------------------- *)
\* the positions of fed that hold a message carrying id
FedWith(id) == {j \in DOMAIN fed : fed[j].id = id}

\* C1 (correlation uniqueness): registrations have pairwise distinct ids, and
\* each one has resolved exactly once if a message carrying its id has been
\* fed and not at all otherwise, the message it resolved with being one that
\* carries its own id, whatever the order of the replies and whatever other
\* messages were fed in between.
C1_CorrelationUniqueness ==
  /\ \A k, l \in DOMAIN regs : regs[k].id = regs[l].id => k = l
  /\ \A k \in DOMAIN regs :
       /\ regs[k].hits = IF FedWith(regs[k].id) # {} THEN 1 ELSE 0
       /\ regs[k].hits > 0 => regs[k].val = regs[k].id

\* two registrations both resolved, the later one first, with an unrelated
\* message fed between the two replies
C1_Witness ==
  /\ Len(regs) = 2
  /\ regs[1].hits = 1 /\ regs[2].hits = 1
  /\ Len(fed) = 3
  /\ fed[1].id = regs[2].id
  /\ fed[2].id \notin {regs[1].id, regs[2].id}
  /\ fed[3].id = regs[1].id

\* the message appended to fed by this step
NewMessage == fed'[Len(fed')]

\* C2 (single resolution): a step that feeds a message carrying the id of a
\* registration that has already resolved leaves every registration as it
\* was, raises no error and does not exit; the message is appended to what the
\* all-messages logger printed.
C2_SingleResolution ==
  [][(/\ Len(fed') = Len(fed) + 1
      /\ \E k \in DOMAIN regs : regs[k].hits > 0 /\ regs[k].id = NewMessage.id)
     => /\ regs' = regs
        /\ errors' = errors
        /\ exited' = exited
        /\ logged' = Append(logged, NewMessage)]_vars

\* a registration resolved once although two messages carrying its id were
\* fed, both of them printed by the logger
C2_Witness ==
  \E k \in DOMAIN regs :
    /\ regs[k].hits = 1
    /\ Cardinality(FedWith(regs[k].id)) >= 2
    /\ Cardinality({j \in DOMAIN logged : logged[j].id = regs[k].id}) >= 2
    /\ ~exited

\* C3 (no cross-talk): a step that feeds a message whose id is the id of no
\* pending registration resolves no registration, does not exit and raises no
\* error: every registration is left as it was.
C3_NoCrossTalk ==
  [][(/\ Len(fed') = Len(fed) + 1
      /\ ~\E k \in DOMAIN regs : ~regs[k].done /\ regs[k].id = NewMessage.id)
     => /\ regs' = regs
        /\ exited' = exited
        /\ errors' = errors]_vars

\* the reply to a ping sent after a registration was made has been fed, and
\* the registration is still pending
C3_Witness ==
  \E k \in DOMAIN regs, j \in DOMAIN fed, p \in DOMAIN sent :
    /\ sent[p].kind = "PingSystem"
    /\ sent[p].id > regs[k].id
    /\ fed[j].id = sent[p].id
    /\ regs[k].hits = 0 /\ ~regs[k].done
    /\ ~exited

\* C4 (register-before-send): in request, upload and download, whenever a
\* Request carrying the command's messageId has been handed to the output
\* stream or to the socket, or a message carrying it has been fed, a
\* registration for that messageId exists.
C4_RegisterBeforeSend ==
  \A c \in DOMAIN cmds :
    (/\ cmds[c].name \in {"request", "upload", "download"}
     /\ cmds[c].messageId # 0
     /\ \/ \E j \in DOMAIN emitted : emitted[j].id = cmds[c].messageId
        \/ \E j \in DOMAIN sent : sent[j].id = cmds[c].messageId
        \/ FedWith(cmds[c].messageId) # {})
    => \E k \in DOMAIN regs : regs[k].id = cmds[c].messageId

\* a command finished its action, its Request carried its messageId, the
\* reply was fed and resolved the registration
C4_Witness ==
  \E c \in DOMAIN cmds, k \in DOMAIN regs :
    /\ cmds[c].name \in {"request", "upload", "download"}
    /\ cmds[c].pc = "done"
    /\ \E j \in DOMAIN sent : sent[j].id = cmds[c].messageId
    /\ regs[k].id = cmds[c].messageId
    /\ regs[k].hits = 1
    /\ FedWith(cmds[c].messageId) # {}

\* C5 (all-messages observer): what the logger printed is exactly what was
\* fed, every message once and in arrival order, whether or not a message
\* resolved a registration or completed a lookup.
C5_LoggerSeesAll == logged = fed

\* three messages were fed, one of them resolved a registration and another
\* one matched none
C5_Witness ==
  /\ Len(fed) = 3
  /\ \E k \in DOMAIN regs : regs[k].hits = 1 /\ FedWith(regs[k].id) # {}
  /\ \E j \in DOMAIN fed : \A k \in DOMAIN regs : regs[k].id # fed[j].id
  /\ Len(logged) = 3

\* C6 (outbound ordering): the buffers passed to serverSocket.send are the
\* buffers emitted on the output stream, in the same order, whoever
\* submitted them.
C6_OutboundOrdering == sent = emitted

\* a foreground request, a ping and a monitoring emission were all sent, the
\* ping before one of the others
C6_Witness ==
  \E i, j \in DOMAIN sent :
    /\ i < j
    /\ sent[i].kind = "PingSystem"
    /\ sent[j].kind # "PingSystem"
    /\ \E e \in DOMAIN sent : sent[e].em # 0
    /\ Len(sent) >= 3

\* C9 (unresolved target device): when the position lookup of a command
\* completed without a device, the command has failed with an error and the
\* process has exited, the command has no messageId and no registration, no
\* topic subscription and no monitoring emitter, and the only request it
\* submitted is the single lookup request.
C9_UnresolvedDevice ==
  \A c \in DOMAIN cmds :
    cmds[c].lookup = "missing"
    => /\ cmds[c].pc = "failed"
       /\ errors = 1
       /\ exited
       /\ cmds[c].messageId = 0
       /\ regs = <<>> /\ subs = <<>> /\ emitters = <<>>
       /\ Cardinality({j \in DOMAIN sent : sent[j].id = cmds[c].lookupId}) = 1
       /\ \A j \in DOMAIN sent :
            sent[j].id = cmds[c].lookupId \/ sent[j].kind = "PingSystem"

\* a command given no device address failed on a lookup that found no device
C9_Witness ==
  \E c \in DOMAIN cmds :
    /\ cmds[c].da = Undefined
    /\ cmds[c].lookup = "missing"
    /\ cmds[c].pc = "failed"
    /\ \E j \in DOMAIN fed : fed[j].id = cmds[c].lookupId /\ fed[j].device = Undefined

\* C10 (explicit device address takes precedence), as claimed: a command
\* given a number as --device-address makes no position lookup, and the
\* address it works with is that number.
C10_AddressPrecedence ==
  \A c \in DOMAIN cmds :
    cmds[c].da.t = "number"
    => /\ cmds[c].lookup = "no"
       /\ cmds[c].lookupId = 0
       /\ cmds[c].addr = cmds[c].da

\* the notifications of topic among those delivered after the first `since`
RECURSIVE OfTopicSince(_, _, _)
OfTopicSince(seq, topic, since) ==
  IF Len(seq) <= since THEN <<>>
  ELSE LET last == seq[Len(seq)]
           rest == OfTopicSince(SubSeq(seq, 1, Len(seq) - 1), topic, since)
       IN  IF last.topic = topic THEN Append(rest, last) ELSE rest

\* C7 (topic isolation): what a subscriber of filterNotificationByTopic$(T)
\* has received is exactly the sequence of notifications with topic T
\* delivered by the notification socket since it subscribed, in arrival
\* order; it holds no notification of another topic.
C7_TopicIsolation ==
  \A k \in DOMAIN subs :
    /\ subs[k].got = OfTopicSince(notifs, subs[k].topic, subs[k].since)
    /\ \A j \in DOMAIN subs[k].got : subs[k].got[j].topic = subs[k].topic

\* a subscriber received two notifications of its topic, in arrival order,
\* while one of another topic arrived between them
C7_Witness ==
  \E k \in DOMAIN subs :
    /\ Len(subs[k].got) = 2
    /\ subs[k].got[1].message < subs[k].got[2].message
    /\ \E j \in DOMAIN notifs :
         /\ notifs[j].topic # subs[k].topic
         /\ subs[k].got[1].message < notifs[j].message
         /\ notifs[j].message < subs[k].got[2].message

\* the emitters of the same (topic, deviceAddress) key as emitter e
SameKey(ems, e) ==
  {f \in DOMAIN ems : ems[f].topic = ems[e].topic /\ ems[f].addr = ems[e].addr}

\* C8 (monitoring supersession): after every step at most one emitter is
\* running per (topic, deviceAddress) key, it is the one started last for the
\* key, and a monitoring request emitted by the step comes from the emitter
\* started last for its key, so with that emitter's interval.
C8_MonitoringSupersession ==
  [][/\ \A e \in DOMAIN emitters' :
          emitters'[e].running <=> \A f \in SameKey(emitters', e) : f <= e
     /\ (Len(sent') = Len(sent) + 1 /\ sent'[Len(sent')].em # 0)
        => \A f \in SameKey(emitters, sent'[Len(sent')].em) :
             f <= sent'[Len(sent')].em]_vars

\* monitoring was started twice for one key with different intervals; the
\* first emitter emitted, was stopped, and the second emitter emitted
C8_Witness ==
  /\ Len(emitters) = 2
  /\ SameKey(emitters, 1) = {1, 2}
  /\ emitters[1].interval # emitters[2].interval
  /\ ~emitters[1].running /\ emitters[2].running
  /\ \E i, j \in DOMAIN sent : i < j /\ sent[i].em = 1 /\ sent[j].em = 2

\* C11 (ping producer liveness): every tick of the ping interval emits one
\* ping request on the output stream, and as long as the process has not
\* exited another tick follows, whatever commands were started, registrations
\* are pending or messages were fed (up to the number of events considered).
C11_PingLiveness ==
  /\ [][pings' = pings + 1
        => /\ Len(emitted') = Len(emitted) + 1
           /\ emitted'[Len(emitted')].kind = "PingSystem"
           /\ cmds' = cmds /\ regs' = regs]_vars
  /\ \A n \in 0..MaxLiveEvents :
       (pings = n) ~> (pings > n \/ exited \/ Events >= MaxLiveEvents)

\* two pings were emitted after a command registered its messageId, the
\* registration is still pending and a message was fed meanwhile
C11_Witness ==
  /\ ~exited
  /\ \E k \in DOMAIN regs, i, j \in DOMAIN emitted :
       /\ ~regs[k].done
       /\ i < j
       /\ emitted[i].kind = "PingSystem" /\ emitted[i].id > regs[k].id
       /\ emitted[j].kind = "PingSystem"
  /\ Len(fed) >= 1

\* a buffer submitted by a command action or its device lookup
IsForeground(buffer) == buffer.kind # "PingSystem" /\ buffer.em = 0

\* the requests command c has had sent by its own client call (not its lookup)
OwnRequestsSent(c) ==
  {i \in DOMAIN sent :
     /\ IsForeground(sent[i])
     /\ sent[i].id # cmds[c].lookupId
     /\ sent[i].kind = SubmitKind(cmds[c].name, cmds[c].type)}

\* C12 (background traffic does not block foreground dispatch): every
\* foreground request emitted on the output stream has been passed to
\* serverSocket.send exactly once, whatever pings and monitoring emissions
\* surround it; and a request, upload or download action that has resumed
\* after its await gets to the end of its statements (or to its throw for an
\* unsupported type), having had exactly one request of its own sent.
C12_ForegroundDispatch ==
  /\ [](\A j \in DOMAIN emitted :
          IsForeground(emitted[j])
          => Cardinality({i \in DOMAIN sent : sent[i] = emitted[j]}) = 1)
  /\ [](\A c \in DOMAIN cmds :
          (cmds[c].name # "monitor" /\ cmds[c].pc = "done")
          => Cardinality(OwnRequestsSent(c)) = 1)
  /\ \A c \in 1..CommandsPerProcess :
       (c \in DOMAIN cmds /\ cmds[c].name # "monitor" /\ cmds[c].pc \in {"s1", "s2"})
         ~> (c \in DOMAIN cmds /\ cmds[c].pc \in {"done", "failed"})

\* a command's own request was sent between two pings
C12_Witness ==
  \E c \in DOMAIN cmds, i, j, k \in DOMAIN sent :
    /\ i < j /\ j < k
    /\ sent[i].kind = "PingSystem"
    /\ j \in OwnRequestsSent(c) /\ cmds[c].pc = "done"
    /\ sent[k].kind = "PingSystem"

\* this step feeds a message carrying id
FeedsId(id) == Len(fed') = Len(fed) + 1 /\ NewMessage.id = id

\* C13 (no timeout): a step that does not feed a message carrying a
\* registration's id leaves that registration as it was, raises no error, and
\* exits the process only if it feeds the id of another registration made
\* with exit; so a registration whose id was never fed is pending, with no
\* resolution, however many pings and other messages have occurred.
C13_NoTimeout ==
  [][/\ \A k \in DOMAIN regs :
          ~FeedsId(regs[k].id)
          => /\ regs'[k] = regs[k]
             /\ errors' = errors
             /\ (exited' /\ ~exited)
                => \E l \in DOMAIN regs : regs[l].exit /\ FeedsId(regs[l].id)
     /\ \A k \in DOMAIN regs' :
          (\A j \in DOMAIN fed' : fed'[j].id # regs'[k].id)
          => regs'[k].hits = 0 /\ ~regs'[k].done]_vars

\* the first thing the program did was to register an id; two pings and two
\* messages later, one of them a ping reply, the registration is still
\* pending and the process alive
C13_Witness ==
  \E k \in DOMAIN regs :
    /\ regs[k].id = 1
    /\ FedWith(1) = {}
    /\ ~regs[k].done /\ regs[k].hits = 0
    /\ pings >= 2
    /\ Len(fed) >= 2
    /\ \E j \in DOMAIN fed : fed[j].id > 1
    /\ ~exited

\* C14 (no replay for late subscribers): every notification a topic
\* subscriber holds was delivered by the notification socket after the
\* subscription was made; one delivered before it is never handed to it.
C14_NoReplay ==
  \A k \in DOMAIN subs :
    \A j \in DOMAIN subs[k].got : subs[k].got[j].message > subs[k].since

\* a notification of the topic was delivered before the subscription, another
\* one after it, and the subscriber holds the later one only
C14_Witness ==
  \E k \in DOMAIN subs :
    /\ \E j \in 1..subs[k].since : notifs[j].topic = subs[k].topic
    /\ Len(subs[k].got) = 1
    /\ subs[k].got[1].message > subs[k].since

\* C15 (one pending registration per id): after every step no two pending
\* registrations have the same id, and a step that feeds a message changes at
\* most one registration.
C15_OnePendingPerId ==
  [][/\ \A k, l \in DOMAIN regs' :
          (~regs'[k].done /\ ~regs'[l].done /\ regs'[k].id = regs'[l].id)
          => k = l
     /\ Len(fed') = Len(fed) + 1
        => Cardinality({k \in DOMAIN regs : regs'[k] # regs[k]}) <= 1]_vars

\* of two registrations pending together, a message resolved the first and
\* left the second pending: the reply to a ping sent after both were made
\* was fed before the first one's message
C15_Witness ==
  /\ Len(regs) = 2
  /\ regs[1].done /\ regs[1].hits = 1
  /\ ~regs[2].done /\ regs[2].hits = 0
  /\ \E i, j \in DOMAIN fed :
       /\ i < j
       /\ fed[i].id > regs[2].id
       /\ FedWith(regs[1].id) = {j}
  /\ ~exited

\* C16 (request carries the registered id), as claimed: when the request
\* action has run its statements for a supported type, the id it registered
\* with exitOnMessageReceived is the id of the Request of that type it had
\* sent.
C16_RequestCarriesRegisteredId ==
  \A c \in DOMAIN cmds :
    (cmds[c].name = "request" /\ cmds[c].type # "Other" /\ cmds[c].pc = "done")
    => /\ \E k \in DOMAIN regs : regs[k].id = cmds[c].messageId
       /\ \E j \in DOMAIN sent :
            sent[j].id = cmds[c].messageId /\ sent[j].kind = cmds[c].type

\* C17 (subscribe before start monitoring): after every step the emitter
\* started by a monitor action has that action's topic subscription beside
\* it, and a step that delivers a notification on the topic of an emitter
\* appends it to what that subscription received.
C17_SubscribeBeforeStart ==
  [][/\ \A e \in DOMAIN emitters' :
          e \in DOMAIN subs' /\ subs'[e].topic = emitters'[e].topic
     /\ Len(notifs') = Len(notifs) + 1
        => \A e \in DOMAIN emitters :
             emitters[e].topic = notifs'[Len(notifs')].topic
             => /\ e \in DOMAIN subs
                /\ subs'[e].got = Append(subs[e].got, notifs'[Len(notifs')])]_vars

\* the first monitor action's subscriber holds a notification delivered after
\* a second monitor action subscribed, so after the first started monitoring
C17_Witness ==
  /\ Len(subs) = 2
  /\ Len(emitters) >= 1
  /\ \E j \in DOMAIN subs[1].got : subs[1].got[j].message > subs[2].since

\* C18 (output frame effect): a step that emits a buffer on output hands
\* exactly that buffer to serverSocket.send once, behind everything sent
\* before, whether or not it is a ping request; the buffer is written to the
\* debug log exactly when it is not a ping request; and nothing is sent or
\* logged by a step that emits nothing.
C18_SendExactlyOnce ==
  [][/\ emitted' # emitted
        => /\ emitted' = Append(emitted, emitted'[Len(emitted')])
           /\ sent' = Append(sent, emitted'[Len(emitted')])
           /\ debugged' = IF emitted'[Len(emitted')].kind = "PingSystem"
                          THEN debugged
                          ELSE Append(debugged, emitted'[Len(emitted')])
     /\ emitted' = emitted => sent' = sent /\ debugged' = debugged]_vars

\* a ping request and a request of a command were both sent, and only the
\* latter was logged
C18_Witness ==
  /\ \E i, j \in DOMAIN sent :
       sent[i].kind = "PingSystem" /\ sent[j].kind # "PingSystem"
  /\ debugged # <<>>
  /\ Len(debugged) < Len(sent)
  /\ \A d \in DOMAIN debugged : debugged[d].kind # "PingSystem"

====
